---- MODULE Spec2Model ----
(***************************************************************************)
(* Model of the tero-server supervisor (src/tero-server/src/tero.rs):      *)
(* the keyed Store and Tero::data, the start/stop/drop lifecycle with its  *)
(* accept loop and session tasks, and the DataHandle operations            *)
(* (get/set/on_change) that act on a DataElement.                          *)
(***************************************************************************)
EXTENDS Integers, Sequences, FiniteSets, TLC

\* ------------------------------------------------------------------ bounds
MaxOps == 3          \* calls of start(), stop() and data() over the whole run
MaxStarts == 2       \* accept loops spawned over the whole run
MaxSessions == 1     \* connections accepted over the whole run
MaxHandleOps == 3    \* get/set/on_change calls made from outside a callback
MaxDepth == 2        \* nesting of set calls a callback is written to allow
MaxBusSets == 2      \* set calls made while sessions subscribe and receive
MaxSubscribers == 3  \* connections accepted while sets are published
MaxLagSets == 34     \* set calls made while one session's receiver falls behind

Keys == {"a", "b"}
Values == {1, 2}
DataThreads == {1, 2}
HTasks == {1, 2}      \* tasks that use a DataHandle

LoopIds == 1..MaxStarts
SessionIds == 1..MaxSessions

None == 0
NoKey == ""        \* a data thread that has not called data() has no arguments
NoValue == 0
NoWrite == [by |-> None, top |-> FALSE, v |-> NoValue]

VARIABLES
    \* ---- struct Tero
    state,            \* self.state : "Up" | "Down"
    server_handle,    \* self.server_handle : None or the id of an accept loop
    handler_handles,  \* self.handler_handles : id of the Arc<Mutex<Vec<..>>> held
    store,            \* self.store : key -> element id
    storeLock,        \* holder of the Store mutex (a data thread) or None
    ephemeral,        \* self.addr names port 0 (every bind gets a fresh port)
    \* ---- heap and runtime
    regs,             \* every task registry ever allocated: id -> Seq(session id)
    loops,            \* every accept-loop task ever spawned
    sessions,         \* every session task ever spawned
    elems,            \* every DataElement ever created
    handles,          \* every DataHandle ever returned by data()
    \* ---- callers
    mainpc,           \* position of the thread that owns the supervisor (&mut self)
    ret,              \* outcome of the last completed supervisor call
    ops,              \* number of calls made on the supervisor
    dpc, dkey, dval,  \* per data thread: position in data(), arguments of its last call
    dret,             \* per data thread: outcome of its last data() call
    dprior,           \* per data thread: key had been registered when data() was called
    dstate,           \* per data thread: get_state() at the return of its last data() call
    \* ---- DataElement locks, broadcast channel, callers of a DataHandle
    valW, valR,       \* DataElement.data RwLock: the writer (or None), the readers
    regW, regR,       \* DataElement.on_change RwLock: the writer (or None), the readers
    bus,              \* the Messages sent on the broadcast channel, in order
    wr,               \* the last replacement of the value: by whom, from a top-level set, what
    stack,            \* per handle task: its call stack of get/set/on_change frames
    hres,             \* per handle task: the value its last get() returned
    hops              \* number of get/set/on_change calls made from outside a callback

lifeVars == <<state, server_handle, handler_handles, ephemeral, regs, loops,
              sessions, mainpc, ret>>
dataVars == <<store, storeLock, elems, handles, dpc, dkey, dval, dret, dprior, dstate>>
handleVars == <<valW, valR, regW, regR, bus, wr, stack, hres, hops>>
vars == <<lifeVars, dataVars, ops, handleVars>>

\* ------------------------------------------------------------ Tero::new
Init ==
    /\ state = "Down"
    /\ server_handle = None
    /\ regs = << <<>> >>
    /\ handler_handles = 1
    /\ store = << >>
    /\ storeLock = None
    /\ ephemeral \in BOOLEAN
    /\ loops = << >>
    /\ sessions = << >>
    /\ elems = << >>
    /\ handles = << >>
    /\ mainpc = "idle"
    /\ ret = "none"
    /\ ops = 0
    /\ dpc = [t \in DataThreads |-> "idle"]
    /\ dkey = [t \in DataThreads |-> NoKey]
    /\ dval = [t \in DataThreads |-> NoValue]
    /\ dret = [t \in DataThreads |-> "none"]
    /\ dprior = [t \in DataThreads |-> FALSE]
    /\ dstate = [t \in DataThreads |-> "none"]
    /\ valW = None /\ valR = {}
    /\ regW = None /\ regR = {}
    /\ bus = << >>
    /\ wr = NoWrite
    /\ stack = [t \in HTasks |-> << >>]
    /\ hres = [t \in HTasks |-> NoValue]
    /\ hops = 0

\* --------------------------------------------------------- get_state
get_state == state

\* ------------------------------------------------------------ Tero::data
\* clone_synchronizable duplicates the value behind a Box<dyn Synchronizable>
clone_synchronizable(v) == v

HandleKeys == {handles[i].key : i \in 1..Len(handles)}

DataCall(t, k, v) ==
    /\ dpc[t] = "idle"
    /\ ops < MaxOps
    /\ ops' = ops + 1
    /\ dpc' = [dpc EXCEPT ![t] = "l44"]
    /\ dkey' = [dkey EXCEPT ![t] = k]
    /\ dval' = [dval EXCEPT ![t] = v]
    /\ dret' = [dret EXCEPT ![t] = "none"]
    /\ dprior' = [dprior EXCEPT ![t] = k \in HandleKeys]
    /\ UNCHANGED <<store, storeLock, elems, handles, dstate, lifeVars, handleVars>>

\* line 44: let guard = self.store.lock();
DataLock(t) ==
    /\ dpc[t] = "l44"
    /\ storeLock = None
    /\ storeLock' = t
    /\ dpc' = [dpc EXCEPT ![t] = "l45"]
    /\ UNCHANGED <<store, elems, handles, dkey, dval, dret, dprior, dstate, lifeVars, ops, handleVars>>

\* line 45: guard.contains_key(key); the server state is not consulted
ContainsKeyMutant(t) == dkey[t] \in DOMAIN store \/ state = "Down"

ContainsKey(t) == dkey[t] \in DOMAIN store

\* lines 45-47: the existence check; the panic unwinds and drops the guard
DataCheck(t) ==
    /\ dpc[t] = "l45"
    /\ IF ContainsKey(t)
         THEN /\ dpc' = [dpc EXCEPT ![t] = "idle"]
              /\ dret' = [dret EXCEPT ![t] = "panic"]
              /\ dstate' = [dstate EXCEPT ![t] = get_state]
              /\ storeLock' = None
         ELSE /\ dpc' = [dpc EXCEPT ![t] = "l48"]
              /\ UNCHANGED <<dret, dstate, storeLock>>
    /\ UNCHANGED <<store, elems, handles, dkey, dval, dprior, lifeVars, ops, handleVars>>

\* what lines 48-59 do to the Store map: nothing is inserted
StoreAfterData(t, e) == store

\* lines 48-51: the DataElement, still under the Store lock
DataBuild(t) ==
    /\ dpc[t] = "l48"
    /\ elems' = Append(elems, [data |-> clone_synchronizable(dval[t]),
                               on_change |-> << >>])
    /\ dpc' = [dpc EXCEPT ![t] = "l53"]
    /\ UNCHANGED <<store, storeLock, handles, dkey, dval, dret, dprior, dstate, lifeVars, ops, handleVars>>

\* lines 52-60: the handle takes the element; the guard drops at the end
DataReturn(t) ==
    /\ dpc[t] = "l53"
    /\ handles' = Append(handles, [key |-> dkey[t], data_element |-> Len(elems),
                                   on_change |-> << >>])
    /\ store' = StoreAfterData(t, Len(elems))
    /\ storeLock' = None
    /\ dret' = [dret EXCEPT ![t] = "ok"]
    /\ dstate' = [dstate EXCEPT ![t] = get_state]
    /\ dpc' = [dpc EXCEPT ![t] = "idle"]
    /\ UNCHANGED <<elems, dkey, dval, dprior, lifeVars, ops, handleVars>>

\* ------------------------------------------------- tasks (tokio runtime)
\* JoinHandle::abort on a session task: a finished task is left as it is
Abort(s) == IF s.status = "live" THEN [s EXCEPT !.status = "aborted"] ELSE s

\* an accept loop owns its listener until the task is gone
HoldsListener(l) == loops[l].pc \notin {"ended", "cancelled"}

\* TcpListener::bind can succeed: port 0, or no listener of ours on the port
CanBind == ephemeral \/ \A l \in 1..Len(loops) : ~HoldsListener(l)

\* ---------------------------------------------------- broadcast channel
\* line 16; broadcast::channel(CHANNEL_SIZE) at line 63 retains that many
ChannelSizeMutant == 32 \div 2

CHANNEL_SIZE == 32

\* index in bus of the oldest Message the channel still retains
Oldest == IF Len(bus) > CHANNEL_SIZE THEN Len(bus) - CHANNEL_SIZE + 1 ELSE 1

\* line 87: broadcast_sender.subscribe() starts after the last Message sent
SubscribeAtMutant == Oldest

SubscribeAt == Len(bus) + 1

\* ----------------------------------------------------------- accept loop
\* line 85: listener.accept().await returns a connection (at most cap over
\* the run)
AcceptN(l, cap) ==
    /\ l \in DOMAIN loops
    /\ loops[l].pc = "accept"
    /\ ~loops[l].aborted
    /\ Len(sessions) < cap
    /\ loops' = [loops EXCEPT ![l].pc = "spawn"]
    /\ UNCHANGED <<state, server_handle, handler_handles, ephemeral, regs,
                   sessions, mainpc, ret, ops, dataVars, handleVars>>

Accept(l) == AcceptN(l, MaxSessions)

\* line 85: accept() returns Err and `while let Ok(..)` leaves the loop
AcceptErrMutant(l) ==
    /\ l \in DOMAIN loops
    /\ loops[l].pc = "accept"
    /\ ~loops[l].aborted
    /\ loops' = [loops EXCEPT ![l].pc = "ended"]
    /\ state' = "Down"
    /\ UNCHANGED <<server_handle, handler_handles, ephemeral, regs,
                   sessions, mainpc, ret, ops, dataVars, handleVars>>

AcceptErr(l) ==
    /\ l \in DOMAIN loops
    /\ loops[l].pc = "accept"
    /\ ~loops[l].aborted
    /\ loops' = [loops EXCEPT ![l].pc = "ended"]
    /\ UNCHANGED <<state, server_handle, handler_handles, ephemeral, regs,
                   sessions, mainpc, ret, ops, dataVars, handleVars>>

\* lines 86-93: the receiver is subscribed, then
\* tokio::spawn(websocket_handler(..)); sub and got record where the
\* receiver was subscribed and which Messages (indices of bus) it received,
\* lagged counts the Messages a lag indication reported as skipped
SpawnSession(l) ==
    /\ l \in DOMAIN loops
    /\ loops[l].pc = "spawn"
    /\ sessions' = Append(sessions, [status |-> "live", loop |-> l,
                                     next |-> SubscribeAt, sub |-> Len(bus) + 1,
                                     got |-> << >>, lagged |-> 0])
    /\ loops' = [loops EXCEPT ![l].pc = "push", ![l].new_handler = Len(sessions) + 1]
    /\ UNCHANGED <<state, server_handle, handler_handles, ephemeral, regs,
                   mainpc, ret, ops, dataVars, handleVars>>

\* line 94: handler_handles.lock().push(new_handler), on the captured Arc
PushHandle(l) ==
    /\ l \in DOMAIN loops
    /\ loops[l].pc = "push"
    /\ regs' = [regs EXCEPT ![loops[l].handler_handles] =
                                Append(@, loops[l].new_handler)]
    /\ loops' = [loops EXCEPT ![l].pc = "accept", ![l].new_handler = None]
    /\ UNCHANGED <<state, server_handle, handler_handles, ephemeral,
                   sessions, mainpc, ret, ops, dataVars, handleVars>>

\* the runtime drops an aborted task once it is parked at its await point
CancelLoop(l) ==
    /\ l \in DOMAIN loops
    /\ loops[l].pc = "accept"
    /\ loops[l].aborted
    /\ loops' = [loops EXCEPT ![l].pc = "cancelled"]
    /\ UNCHANGED <<state, server_handle, handler_handles, ephemeral, regs,
                   sessions, mainpc, ret, ops, dataVars, handleVars>>

\* a session task ends by itself (the peer disconnects)
SessionEnd(s) ==
    /\ s \in DOMAIN sessions
    /\ sessions[s].status = "live"
    /\ sessions' = [sessions EXCEPT ![s].status = "finished"]
    /\ UNCHANGED <<state, server_handle, handler_handles, ephemeral, regs,
                   loops, mainpc, ret, ops, dataVars, handleVars>>

\* ----------------------------------------------------------- Tero::start
\* lines 79-80: the bind fails and expect() panics
StartBindFailMutant ==
    /\ ret' = "start_panic"
    /\ state' = "Up"
    /\ UNCHANGED <<server_handle, handler_handles, regs, loops>>

StartBindFail ==
    /\ ret' = "start_panic"
    /\ UNCHANGED <<state, server_handle, handler_handles, regs, loops>>

\* line 82: the registry the accept loop will push to
CapturedRegistryMutant == IF handler_handles > 1 THEN handler_handles - 1 ELSE handler_handles

CapturedRegistry == handler_handles

\* lines 84-98: the accept loop is spawned with its captures, its handle
\* replaces self.server_handle (an earlier handle is dropped, which detaches
\* its task), and the state becomes Up
StartBoundMutant ==
    /\ loops' = Append(loops, [pc |-> "accept", aborted |-> FALSE,
                               handler_handles |-> CapturedRegistry,
                               new_handler |-> None])
    /\ state' = "Up"
    /\ ret' = "start_ok"
    /\ UNCHANGED <<server_handle, handler_handles, regs>>

StartBound ==
    /\ loops' = Append(loops, [pc |-> "accept", aborted |-> FALSE,
                               handler_handles |-> CapturedRegistry,
                               new_handler |-> None])
    /\ server_handle' = Len(loops) + 1
    /\ state' = "Up"
    /\ ret' = "start_ok"
    /\ UNCHANGED <<handler_handles, regs>>

\* start() is one step of the owner thread: nothing it writes before it
\* returns is read by a task, and &mut self excludes every other call
Start ==
    /\ mainpc = "idle"
    /\ ops < MaxOps
    /\ ops' = ops + 1
    /\ \/ StartBindFail
       \/ CanBind /\ Len(loops) < MaxStarts /\ StartBound
    /\ UNCHANGED <<ephemeral, sessions, mainpc, dataVars, handleVars>>

\* ------------------------------------------------------------ Tero::stop
\* line 102
StopGuardMutant == TRUE

StopGuard == state = "Up"

\* the session tasks a registry records
Recorded(r) == {regs[r][i] : i \in 1..Len(regs[r])}

\* lines 102-105, entered from a call of stop() (d = FALSE) or from drop
\* (d = TRUE): abort every recorded session under the registry's lock
StopAbortSessions(d) ==
    /\ mainpc = "idle"
    /\ d \/ ops < MaxOps
    /\ IF StopGuard
         THEN /\ sessions' = [s \in 1..Len(sessions) |->
                                IF s \in Recorded(handler_handles)
                                  THEN Abort(sessions[s]) ELSE sessions[s]]
              /\ mainpc' = IF d THEN "drop106" ELSE "stop106"
              /\ UNCHANGED <<ret, ops>>
         ELSE /\ mainpc' = IF d THEN "gone" ELSE "idle"
              /\ ret' = IF d THEN "drop" ELSE "stop_noop"
              /\ ops' = ops + 1
              /\ UNCHANGED sessions
    /\ UNCHANGED <<state, server_handle, handler_handles, ephemeral, regs, loops,
                   dataVars, handleVars>>

\* lines 106-108: the registry is replaced by a fresh one, the accept loop
\* is aborted (unwrap panics on None), the state becomes Down
StopFinish ==
    /\ mainpc \in {"stop106", "drop106"}
    /\ regs' = Append(regs, << >>)
    /\ handler_handles' = Len(regs) + 1
    /\ ops' = ops + 1
    /\ mainpc' = IF mainpc = "drop106" THEN "gone" ELSE "idle"
    /\ IF server_handle = None
         THEN /\ ret' = "stop_panic"
              /\ UNCHANGED <<loops, server_handle, state>>
         ELSE /\ loops' = [loops EXCEPT ![server_handle].aborted = TRUE]
              /\ server_handle' = None
              /\ state' = "Down"
              /\ ret' = IF mainpc = "drop106" THEN "drop" ELSE "stop"
    /\ UNCHANGED <<ephemeral, sessions, dataVars, handleVars>>

\* ------------------------------------------------------- the whole system
Next ==
    \/ \E t \in DataThreads, k \in Keys, v \in Values : DataCall(t, k, v)
    \/ \E t \in DataThreads : DataLock(t)
    \/ \E t \in DataThreads : DataCheck(t)
    \/ \E t \in DataThreads : DataBuild(t)
    \/ \E t \in DataThreads : DataReturn(t)
    \/ \E l \in LoopIds : Accept(l)
    \/ \E l \in LoopIds : AcceptErr(l)
    \/ \E l \in LoopIds : SpawnSession(l)
    \/ \E l \in LoopIds : PushHandle(l)
    \/ \E l \in LoopIds : CancelLoop(l)
    \/ \E s \in SessionIds : SessionEnd(s)
    \/ Start
    \/ \E d \in BOOLEAN : StopAbortSessions(d)
    \/ StopFinish

Spec == Init /\ [][Next]_vars

\* ------------------------------------------------------------ DataHandle
\* get/set/on_change of a handle, acting on the DataElement of tero.rs lines
\* 18-21 (one RwLock around the value, one around the callback registry).
\* A callback is a closure: "log" does nothing to the element, "set" calls
\* set(v) on the handle of its own key while fewer than MaxDepth sets nest.
Callbacks == {[kind |-> "log", v |-> NoValue]} \cup {[kind |-> "set", v |-> v] : v \in Values}

\* the handle and element every handle task uses
TheHandle == 1
TheElem == handles[TheHandle].data_element

\* a call frame: the operation, its position, its arguments, the snapshot of
\* the callback list and the index into it; pre, written and ran record the
\* registry at the call, that the value was replaced, the callbacks invoked
Frame(op, pc, v, cb) ==
    [op |-> op, pc |-> pc, v |-> v, cb |-> cb, snap |-> << >>, i |-> 0,
     pre |-> elems[TheElem].on_change, written |-> FALSE, ran |-> << >>]
NoCallback == [kind |-> "none", v |-> NoValue]

Top(t) == stack[t][Len(stack[t])]
InFrame(t, op, pc) == stack[t] # << >> /\ Top(t).op = op /\ Top(t).pc = pc
SetTop(t, f) == [stack EXCEPT ![t] = [@ EXCEPT ![Len(@)] = f]]
Pop(t) == [stack EXCEPT ![t] = SubSeq(@, 1, Len(@) - 1)]

lifeDataVars == <<lifeVars, store, storeLock, handles, dpc, dkey, dval, dret, dprior, dstate, ops>>

\* a task calls set(v), get() or on_change(cb) from outside any callback
CallSetN(t, v, cap) ==
    /\ stack[t] = << >> /\ hops < cap
    /\ hops' = hops + 1
    /\ stack' = [stack EXCEPT ![t] = <<Frame("set", "wlock", v, NoCallback)>>]
    /\ UNCHANGED <<valW, valR, regW, regR, bus, hres, elems, wr, lifeDataVars>>

CallSet(t, v) == CallSetN(t, v, MaxHandleOps)

CallGet(t) ==
    /\ stack[t] = << >> /\ hops < MaxHandleOps
    /\ hops' = hops + 1
    /\ stack' = [stack EXCEPT ![t] = <<Frame("get", "rlock", NoValue, NoCallback)>>]
    /\ UNCHANGED <<valW, valR, regW, regR, bus, hres, elems, wr, lifeDataVars>>

CallOnChange(t, cb) ==
    /\ stack[t] = << >> /\ hops < MaxHandleOps
    /\ hops' = hops + 1
    /\ stack' = [stack EXCEPT ![t] = <<Frame("on_change", "reglock", NoValue, cb)>>]
    /\ UNCHANGED <<valW, valR, regW, regR, bus, hres, elems, wr, lifeDataVars>>

\* set, step 1: take the value lock for write and replace the value
SetLockValue(t) ==
    /\ InFrame(t, "set", "wlock")
    /\ valW = None /\ valR = {}
    /\ valW' = t
    /\ elems' = [elems EXCEPT ![TheElem].data = clone_synchronizable(Top(t).v)]
    /\ wr' = [by |-> t, top |-> Len(stack[t]) = 1, v |-> Top(t).v]
    /\ stack' = SetTop(t, [Top(t) EXCEPT !.pc = "wunlock", !.written = TRUE])
    /\ UNCHANGED <<valR, regW, regR, bus, hres, hops, lifeDataVars>>

\* set, step 1: the value lock is released before anything else happens
SetUnlockValueMutant(t) ==
    /\ InFrame(t, "set", "wunlock")
    /\ stack' = SetTop(t, [Top(t) EXCEPT !.pc = "publish"])
    /\ UNCHANGED <<valW, valR, regW, regR, bus, hres, hops, elems, wr, lifeDataVars>>

SetUnlockValue(t) ==
    /\ InFrame(t, "set", "wunlock")
    /\ valW' = None
    /\ stack' = SetTop(t, [Top(t) EXCEPT !.pc = "publish"])
    /\ UNCHANGED <<valR, regW, regR, bus, hres, hops, elems, wr, lifeDataVars>>

\* the receivers of the channel: the one Tero keeps in self.broadcast.1
\* (lines 33, 63-70) and one per live session (line 87)
ReceiverCount == 1 + Cardinality({s \in DOMAIN sessions : sessions[s].status = "live"})

\* set, step 2: publish Message{key, new_value}; the send never blocks, and
\* it fails (the Message is handed back) only when no receiver exists
SetPublish(t) ==
    /\ InFrame(t, "set", "publish")
    /\ bus' = IF ReceiverCount > 0
                THEN Append(bus, [key |-> handles[TheHandle].key, value |-> Top(t).v])
                ELSE bus
    /\ stack' = SetTop(t, [Top(t) EXCEPT !.pc = "snaplock"])
    /\ UNCHANGED <<valW, valR, regW, regR, hres, hops, elems, wr, lifeDataVars>>

\* set, step 3: snapshot the callback list under the registry lock
SetSnapshot(t) ==
    /\ InFrame(t, "set", "snaplock")
    /\ regW = None
    /\ regR' = regR \cup {t}
    /\ stack' = SetTop(t, [Top(t) EXCEPT !.pc = "snapunlock",
                                         !.snap = elems[TheElem].on_change])
    /\ UNCHANGED <<valW, valR, regW, bus, hres, hops, elems, wr, lifeDataVars>>

\* set, step 3: the registry lock is released before any callback runs
SetReleaseRegistry(t) ==
    /\ InFrame(t, "set", "snapunlock")
    /\ regR' = regR \ {t}
    /\ stack' = SetTop(t, [Top(t) EXCEPT !.pc = "dispatch", !.i = 1])
    /\ UNCHANGED <<valW, valR, regW, bus, hres, hops, elems, wr, lifeDataVars>>

\* set, step 3: invoke the next callback of the snapshot on the calling task
SetInvoke(t) ==
    /\ InFrame(t, "set", "dispatch")
    /\ Top(t).i <= Len(Top(t).snap)
    /\ LET f == Top(t)
           cb == f.snap[f.i]
           advanced == SetTop(t, [f EXCEPT !.i = f.i + 1, !.ran = Append(@, cb)])
       IN stack' = IF cb.kind = "set" /\ Len(stack[t]) < MaxDepth
                     THEN [advanced EXCEPT ![t] =
                              Append(@, Frame("set", "wlock", cb.v, NoCallback))]
                     ELSE advanced
    /\ UNCHANGED <<valW, valR, regW, regR, bus, hres, hops, elems, wr, lifeDataVars>>

\* set returns once every callback of the snapshot has run
SetReturnMutant(t) ==
    /\ InFrame(t, "set", "dispatch")
    /\ stack' = Pop(t)
    /\ UNCHANGED <<valW, valR, regW, regR, bus, hres, hops, elems, wr, lifeDataVars>>

SetReturn(t) ==
    /\ InFrame(t, "set", "dispatch")
    /\ Top(t).i > Len(Top(t).snap)
    /\ stack' = Pop(t)
    /\ UNCHANGED <<valW, valR, regW, regR, bus, hres, hops, elems, wr, lifeDataVars>>

\* on_change: append to the element's registry under its lock
OnChangeLock(t) ==
    /\ InFrame(t, "on_change", "reglock")
    /\ regW = None /\ regR = {}
    /\ regW' = t
    /\ elems' = [elems EXCEPT ![TheElem].on_change = Append(@, Top(t).cb)]
    /\ stack' = SetTop(t, [Top(t) EXCEPT !.pc = "regunlock"])
    /\ UNCHANGED <<valW, valR, regR, bus, hres, hops, wr, lifeDataVars>>

OnChangeUnlock(t) ==
    /\ InFrame(t, "on_change", "regunlock")
    /\ regW' = None
    /\ stack' = Pop(t)
    /\ UNCHANGED <<valW, valR, regR, bus, hres, hops, elems, wr, lifeDataVars>>

\* get: duplicate the value under the read lock, release, return
GetLockMutant(t) ==
    /\ InFrame(t, "get", "rlock")
    /\ valW = None
    /\ valR' = valR \cup {t}
    /\ stack' = SetTop(t, [Top(t) EXCEPT !.pc = "runlock", !.v = hres[t]])
    /\ UNCHANGED <<valW, regW, regR, bus, hres, hops, elems, wr, lifeDataVars>>

GetLock(t) ==
    /\ InFrame(t, "get", "rlock")
    /\ valW = None
    /\ valR' = valR \cup {t}
    /\ stack' = SetTop(t, [Top(t) EXCEPT !.pc = "runlock",
                                         !.v = clone_synchronizable(elems[TheElem].data)])
    /\ UNCHANGED <<valW, regW, regR, bus, hres, hops, elems, wr, lifeDataVars>>

GetUnlock(t) ==
    /\ InFrame(t, "get", "runlock")
    /\ valR' = valR \ {t}
    /\ hres' = [hres EXCEPT ![t] = Top(t).v]
    /\ stack' = Pop(t)
    /\ UNCHANGED <<valW, regW, regR, bus, hops, elems, wr, lifeDataVars>>

\* every step a task takes inside a call it has made
TaskStep(t) ==
    \/ SetLockValue(t) \/ SetUnlockValue(t) \/ SetPublish(t) \/ SetSnapshot(t)
    \/ SetReleaseRegistry(t) \/ SetInvoke(t) \/ SetReturn(t)
    \/ OnChangeLock(t) \/ OnChangeUnlock(t) \/ GetLock(t) \/ GetUnlock(t)

\* the supervisor after data("a", v) has returned a handle to data thread 1
InitHandle ==
    /\ state = "Down"
    /\ server_handle = None
    /\ regs = << <<>> >>
    /\ handler_handles = 1
    /\ store = << >>
    /\ storeLock = None
    /\ ephemeral \in BOOLEAN
    /\ loops = << >>
    /\ sessions = << >>
    /\ mainpc = "idle"
    /\ ret = "none"
    /\ ops = 1
    /\ \E v \in Values :
          /\ elems = <<[data |-> clone_synchronizable(v), on_change |-> << >>]>>
          /\ dval = [t \in DataThreads |-> IF t = 1 THEN v ELSE NoValue]
    /\ handles = <<[key |-> "a", data_element |-> 1, on_change |-> << >>]>>
    /\ dpc = [t \in DataThreads |-> "idle"]
    /\ dkey = [t \in DataThreads |-> IF t = 1 THEN "a" ELSE NoKey]
    /\ dret = [t \in DataThreads |-> IF t = 1 THEN "ok" ELSE "none"]
    /\ dprior = [t \in DataThreads |-> FALSE]
    /\ dstate = [t \in DataThreads |-> "none"]
    /\ valW = None /\ valR = {}
    /\ regW = None /\ regR = {}
    /\ bus = << >>
    /\ wr = NoWrite
    /\ stack = [t \in HTasks |-> << >>]
    /\ hres = [t \in HTasks |-> NoValue]
    /\ hops = 0

NextHandle ==
    \/ \E t \in HTasks, v \in Values : CallSet(t, v)
    \/ \E t \in HTasks : CallGet(t)
    \/ \E t \in HTasks, cb \in Callbacks : CallOnChange(t, cb)
    \/ \E t \in HTasks : SetLockValue(t)
    \/ \E t \in HTasks : SetUnlockValue(t)
    \/ \E t \in HTasks : SetPublish(t)
    \/ \E t \in HTasks : SetSnapshot(t)
    \/ \E t \in HTasks : SetReleaseRegistry(t)
    \/ \E t \in HTasks : SetInvoke(t)
    \/ \E t \in HTasks : SetReturn(t)
    \/ \E t \in HTasks : OnChangeLock(t)
    \/ \E t \in HTasks : OnChangeUnlock(t)
    \/ \E t \in HTasks : GetLock(t)
    \/ \E t \in HTasks : GetUnlock(t)

SpecHandle == InitHandle /\ [][NextHandle]_vars

\* the same supervisor after on_change(|_| HANDLE.set(v)) has returned, as in
\* the test on_change_handler_with_inner_self_set
InitReentrant ==
    /\ state = "Down"
    /\ server_handle = None
    /\ regs = << <<>> >>
    /\ handler_handles = 1
    /\ store = << >>
    /\ storeLock = None
    /\ ephemeral = FALSE
    /\ loops = << >>
    /\ sessions = << >>
    /\ mainpc = "idle"
    /\ ret = "none"
    /\ ops = 1
    /\ \E v \in Values :
          elems = <<[data |-> 1, on_change |-> <<[kind |-> "set", v |-> v]>>]>>
    /\ handles = <<[key |-> "a", data_element |-> 1, on_change |-> << >>]>>
    /\ dpc = [t \in DataThreads |-> "idle"]
    /\ dkey = [t \in DataThreads |-> IF t = 1 THEN "a" ELSE NoKey]
    /\ dval = [t \in DataThreads |-> IF t = 1 THEN 1 ELSE NoValue]
    /\ dret = [t \in DataThreads |-> IF t = 1 THEN "ok" ELSE "none"]
    /\ dprior = [t \in DataThreads |-> FALSE]
    /\ dstate = [t \in DataThreads |-> "none"]
    /\ valW = None /\ valR = {}
    /\ regW = None /\ regR = {}
    /\ bus = << >>
    /\ wr = NoWrite
    /\ stack = [t \in HTasks |-> << >>]
    /\ hres = [t \in HTasks |-> NoValue]
    /\ hops = 1

\* a task inside a call keeps running: calls do not suspend
FairSpecHandle ==
    InitReentrant /\ [][NextHandle]_vars /\ \A t \in HTasks : WF_vars(TaskStep(t))

\* ------------------------------------------- sessions on the channel
\* a session's receiver returns its next Message, or a lag indication when
\* the channel no longer retains it; the session goes on either way
Recv(s) ==
    /\ s \in DOMAIN sessions
    /\ sessions[s].status = "live"
    /\ sessions[s].next <= Len(bus)
    /\ sessions' = [sessions EXCEPT ![s] =
          IF @.next < Oldest
            THEN [@ EXCEPT !.lagged = @ + (Oldest - sessions[s].next), !.next = Oldest]
            ELSE [@ EXCEPT !.got = Append(@, sessions[s].next), !.next = @ + 1]]
    /\ UNCHANGED <<state, server_handle, handler_handles, ephemeral, regs,
                   loops, mainpc, ret, ops, dataVars, handleVars>>

\* the supervisor made for an ephemeral port, after data("a", v) and
\* start() have returned
Started ==
    /\ state = "Up"
    /\ server_handle = 1
    /\ regs = << <<>> >>
    /\ handler_handles = 1
    /\ store = << >>
    /\ storeLock = None
    /\ ephemeral = TRUE
    /\ loops = <<[pc |-> "accept", aborted |-> FALSE, handler_handles |-> 1,
                 new_handler |-> None]>>
    /\ mainpc = "idle"
    /\ ret = "start_ok"
    /\ ops = 2
    /\ \E v \in Values :
          /\ \A w \in Values : v <= w
          /\ elems = <<[data |-> clone_synchronizable(v), on_change |-> << >>]>>
          /\ dval = [t \in DataThreads |-> IF t = 1 THEN v ELSE NoValue]
    /\ handles = <<[key |-> "a", data_element |-> 1, on_change |-> << >>]>>
    /\ dpc = [t \in DataThreads |-> "idle"]
    /\ dkey = [t \in DataThreads |-> IF t = 1 THEN "a" ELSE NoKey]
    /\ dret = [t \in DataThreads |-> IF t = 1 THEN "ok" ELSE "none"]
    /\ dprior = [t \in DataThreads |-> FALSE]
    /\ dstate = [t \in DataThreads |-> IF t = 1 THEN "Down" ELSE "none"]
    /\ valW = None /\ valR = {}
    /\ regW = None /\ regR = {}
    /\ bus = << >>
    /\ wr = NoWrite
    /\ stack = [t \in HTasks |-> << >>]
    /\ hres = [t \in HTasks |-> NoValue]
    /\ hops = 0

InitBus == Started /\ sessions = << >>

SubscriberIds == 1..MaxSubscribers

NextBus ==
    \/ \E l \in LoopIds : AcceptN(l, MaxSubscribers)
    \/ \E l \in LoopIds : SpawnSession(l)
    \/ \E l \in LoopIds : PushHandle(l)
    \/ \E s \in SubscriberIds : Recv(s)
    \/ \E t \in HTasks : CallSetN(t, elems[TheElem].data, MaxBusSets)
    \/ \E t \in HTasks : SetLockValue(t)
    \/ \E t \in HTasks : SetUnlockValue(t)
    \/ \E t \in HTasks : SetPublish(t)
    \/ \E t \in HTasks : SetSnapshot(t)
    \/ \E t \in HTasks : SetReleaseRegistry(t)
    \/ \E t \in HTasks : SetReturn(t)

SpecBus == InitBus /\ [][NextBus]_vars

\* a session task is polled whenever its receiver has a Message, and a
\* task inside set keeps running
FairSpecBus ==
    /\ SpecBus
    /\ \A s \in SubscriberIds : WF_vars(Recv(s))
    /\ \A t \in HTasks : WF_vars(TaskStep(t))

\* the same supervisor; one connection is accepted at some point while one
\* task publishes one value again and again
InitLag == Started /\ sessions = << >>

ThePublisher == {t \in HTasks : \A u \in HTasks : t <= u}

NextLag ==
    \/ \E l \in LoopIds : AcceptN(l, 1)
    \/ \E l \in LoopIds : SpawnSession(l)
    \/ \E l \in LoopIds : PushHandle(l)
    \/ \E s \in {1} : Recv(s)
    \/ \E t \in ThePublisher : CallSetN(t, elems[TheElem].data, MaxLagSets)
    \/ \E t \in ThePublisher : SetLockValue(t)
    \/ \E t \in ThePublisher : SetUnlockValue(t)
    \/ \E t \in ThePublisher : SetPublish(t)
    \/ \E t \in ThePublisher : SetSnapshot(t)
    \/ \E t \in ThePublisher : SetReleaseRegistry(t)
    \/ \E t \in ThePublisher : SetReturn(t)

SpecLag == InitLag /\ [][NextLag]_vars

\* ------------------------------------------------------------ properties
LiveSessions == {s \in 1..Len(sessions) : sessions[s].status = "live"}

\* an accept loop that has not been aborted and has not left its loop
LiveLoops == {l \in 1..Len(loops) :
                ~loops[l].aborted /\ loops[l].pc \notin {"ended", "cancelled"}}

\* an accept loop that holds a connection it has yet to spawn a session for
SpawningLoops == {l \in 1..Len(loops) : loops[l].pc = "spawn"}

\* a task is at a lock acquisition while it holds that lock itself
SelfWait(t) ==
    \/ InFrame(t, "set", "wlock") /\ (valW = t \/ t \in valR)
    \/ InFrame(t, "get", "rlock") /\ valW = t
    \/ InFrame(t, "set", "snaplock") /\ regW = t
    \/ InFrame(t, "on_change", "reglock") /\ (regW = t \/ t \in regR)

OwnerReturns(r) == ops' = ops + 1 /\ UNCHANGED dpc /\ ret' = r

\* C2: once data(k, v1) has succeeded, a later data(k, v2) fails with the
\* duplicate-key error: no call made after a success on its key succeeds.
C2_DuplicateKeyFails ==
    \A t \in DataThreads : dret[t] = "ok" => ~dprior[t]

\* C3: of two data() calls on one key that run concurrently (neither began
\* after the other had succeeded), at most one succeeds.
C3_ConcurrentRegistrationExclusive ==
    \A t1, t2 \in DataThreads :
        (t1 # t2 /\ dkey[t1] = dkey[t2] /\ ~dprior[t1] /\ ~dprior[t2])
            => ~(dret[t1] = "ok" /\ dret[t2] = "ok")

\* C4: the Store's key set is the set of keys data() has succeeded for, and
\* the Store maps each such key to the element its handle is bound to.
C4_StoreHoldsRegistered ==
    /\ DOMAIN store = HandleKeys
    /\ \A i \in 1..Len(handles) : store[handles[i].key] = handles[i].data_element

\* C5: once stop() has returned on an Up supervisor the state is Down, no
\* session task and no accept loop is live, and none can still be started.
C5_StopLeavesNoTask ==
    (ret = "stop" /\ mainpc = "idle") =>
        /\ get_state = "Down"
        /\ LiveSessions = {}
        /\ LiveLoops = {}
        /\ SpawningLoops = {}

\* C6: a stop() call on a Down supervisor returns without failing and leaves
\* the state, the accept-loop handle, the task registry, the tasks, the
\* Store and the broadcast channel as they were.
C6_StopWhenDownIsNoOp ==
    [][(state = "Down" /\ mainpc = "idle" /\ mainpc' # "gone"
          /\ (mainpc' = "stop106" \/ OwnerReturns("stop_noop")
                \/ OwnerReturns("stop") \/ OwnerReturns("stop_panic")))
        => /\ ret' = "stop_noop"
           /\ mainpc' = "idle"
           /\ UNCHANGED <<state, server_handle, handler_handles, regs, loops,
                          sessions, store, elems, handles, bus>>]_vars

C6_Witness == ret = "stop_noop" /\ state = "Down" /\ Len(regs) >= 2

\* C7: a start() that binds, also after an earlier start()/stop() cycle,
\* leaves the state Up with a freshly spawned accept loop recorded in
\* server_handle, and whenever the supervisor is Up and at rest that loop
\* pushes its sessions to the registry the supervisor holds.
C7_Restart ==
    [][/\ OwnerReturns("start_ok") =>
            /\ state' = "Up"
            /\ Len(loops') = Len(loops) + 1
            /\ server_handle' = Len(loops')
            /\ loops'[server_handle'].pc = "accept"
            /\ ~loops'[server_handle'].aborted
       /\ (state' = "Up" /\ mainpc' = "idle") =>
            /\ server_handle' # None
            /\ loops'[server_handle'].handler_handles = handler_handles'
      ]_vars

C7_Witness ==
    /\ state = "Up" /\ mainpc = "idle" /\ Len(regs) >= 2
    /\ regs[handler_handles] # << >>

\* C8: a start() whose bind fails changes neither the state nor the
\* accept-loop handle nor the registry nor any task, and a start() makes the
\* state Up only when the address could be bound.
C8_BindFailureLeavesDown ==
    [][/\ OwnerReturns("start_panic") =>
            UNCHANGED <<state, server_handle, handler_handles, regs, loops, sessions>>
       /\ OwnerReturns("start_ok") => CanBind
      ]_vars

C8_Witness == ret = "start_panic" /\ state = "Down" /\ Len(loops) > 0

\* C9: once the supervisor has been dropped, every accept loop and every
\* session task it ever spawned is cancelled and none can still be started.
C9_DropCancelsAll ==
    mainpc = "gone" =>
        /\ \A s \in 1..Len(sessions) : sessions[s].status # "live"
        /\ \A l \in 1..Len(loops) : l \notin LiveLoops /\ l \notin SpawningLoops

\* C10: the state is Down at construction and changes only in a start()
\* step (Down to Up) or in a stop() step (Up to Down).
C10_StateChangesOnlyByStartStop ==
    /\ state = "Down"
    /\ [][state' # state =>
            \/ /\ state = "Down" /\ state' = "Up"
               /\ mainpc = "idle" /\ OwnerReturns("start_ok")
            \/ /\ state = "Up" /\ state' = "Down"
               /\ mainpc \in {"stop106", "drop106"} /\ ret' \in {"stop", "drop"}
         ]_vars

C10_Witness ==
    /\ ret = "stop" /\ state = "Down"
    /\ Len(sessions) > 0 /\ Len(handles) > 0

\* the step belongs to a data() call of thread t
DataStep(t) == dpc'[t] # dpc[t]

\* C11: a data() call on a key not yet registered succeeds whether the
\* supervisor is Down or Up, and no step of data() changes the server state,
\* the accept-loop handle, the task registry or a task.
C11_DataNotGatedOnState ==
    /\ [](\A t \in DataThreads : dret[t] = "panic" => dprior[t])
    /\ [][\A t \in DataThreads :
            DataStep(t) => UNCHANGED <<state, server_handle, handler_handles,
                                       regs, loops, sessions>>]_vars

C11_Witness ==
    \E t1, t2 \in DataThreads :
        /\ dret[t1] = "ok" /\ dstate[t1] = "Up" /\ ~dprior[t1]
        /\ dret[t2] = "ok" /\ dstate[t2] = "Down" /\ ~dprior[t2]

\* C12: a key has one callback registry: every handle of a key is bound to
\* the same DataElement, hence to the same on_change list.
C12_OneRegistryPerKey ==
    \A i, j \in 1..Len(handles) :
        handles[i].key = handles[j].key
            => handles[i].data_element = handles[j].data_element

\* C17: every live session task is recorded in the registry the supervisor
\* holds, the one its next stop() iterates.
C17_LiveSessionsRecorded ==
    \A s \in LiveSessions : s \in Recorded(handler_handles)

\* C18: the Store lock is not held while data() duplicates the value (line
\* 49) or builds the handle (lines 52-59), and a thread outside data() does
\* not hold it.
C18_StoreLockOnlyForMapOperation ==
    \A t \in DataThreads :
        /\ dpc[t] \in {"l48", "l53"} => storeLock # t
        /\ dpc[t] = "idle" => storeLock # t

\* C19: between calls of the owner, the state is Up exactly when an
\* accept-loop handle is recorded, and stop() never failed on a missing one.
C19_UpIffServerHandle ==
    /\ mainpc \in {"idle", "gone"} => (state = "Up" <=> server_handle # None)
    /\ mainpc \in {"stop106", "drop106"} => server_handle # None
    /\ ret # "stop_panic"

C19_Witness ==
    /\ ret = "stop" /\ mainpc = "idle" /\ state = "Down" /\ server_handle = None
    /\ Len(loops) >= 1

\* C20: at most one accept loop is live, and it is the recorded one.
C20_OneLiveAcceptLoop ==
    /\ Cardinality(LiveLoops) <= 1
    /\ \A l \in LiveLoops : server_handle = l

IsPrefix(a, b) == Len(a) <= Len(b) /\ SubSeq(b, 1, Len(a)) = a

SetFrames(t) == {k \in 1..Len(stack[t]) : stack[t][k].op = "set"}

\* task t invokes a callback in this step
Invokes(t) ==
    \E k \in SetFrames(t) :
        k <= Len(stack'[t]) /\ Len(stack'[t][k].ran) > Len(stack[t][k].ran)

\* task t returns from a set in this step
ReturnsFromSet(t) ==
    /\ stack[t] # << >> /\ Top(t).op = "set"
    /\ Len(stack'[t]) = Len(stack[t]) - 1

\* C13: a set invokes the callbacks registered before it was called once
\* each, in registration order, after its value has been replaced and its
\* value lock released, and returns only when all of them have run.
C13_DispatchCompleteOrderedSynchronous ==
    /\ [](\A t \in HTasks : \A k \in SetFrames(t) :
            LET f == stack[t][k] IN
              /\ f.ran # << >> => f.written /\ f.pc = "dispatch"
              /\ f.pc = "dispatch" => /\ f.ran = SubSeq(f.snap, 1, f.i - 1)
                                      /\ IsPrefix(f.pre, f.snap))
    /\ [][\A t \in HTasks :
            /\ Invokes(t) => valW # t
            /\ ReturnsFromSet(t) => /\ Top(t).ran = Top(t).snap
                                    /\ IsPrefix(Top(t).pre, Top(t).ran)]_vars

C13_Witness ==
    \E t \in HTasks :
        /\ InFrame(t, "set", "dispatch")
        /\ Len(Top(t).pre) >= 2
        /\ Top(t).ran = Top(t).pre

\* C14: a get() that a task makes after its own top-level set(v), with no
\* other replacement of the value in between, reads and returns v.
C14_ReadYourWrite ==
    /\ [](\A t \in HTasks :
            (InFrame(t, "get", "runlock") /\ wr.by = t /\ wr.top) => Top(t).v = wr.v)
    /\ [][\A t \in HTasks :
            (InFrame(t, "get", "runlock") /\ stack'[t] = << >>)
                => hres'[t] = Top(t).v]_vars

C14_Witness ==
    \E t \in HTasks :
        /\ stack[t] = << >> /\ wr.by = t /\ wr.top
        /\ Len(bus) = 1 /\ hres[t] = wr.v /\ wr.v # dval[1]

\* Messages bus[from] .. bus[to - 1], as indices, in publish order
Published(from, to) == [i \in 1..(to - from) |-> from + i - 1]

Received(s) == {sessions[s].got[i] : i \in 1..Len(sessions[s].got)}

\* every session has received every Message published since it subscribed
AllDelivered ==
    \A s \in DOMAIN sessions : \A i \in sessions[s].sub..Len(bus) : i \in Received(s)

RecvStep(s) ==
    /\ s \in DOMAIN sessions /\ s \in DOMAIN sessions'
    /\ sessions'[s].next # sessions[s].next

PublishStep(t) == InFrame(t, "set", "publish") /\ stack'[t] # stack[t]

\* C16: lag handling on the channel of capacity 32. A receive by a session
\* with more than 32 unread Messages returns a lag indication that skips
\* exactly the Messages the channel no longer retains (the oldest unread)
\* and delivers nothing; every other receive delivers the next unread
\* Message, so the 32 retained and all later Messages arrive in publish
\* order. A publish is always possible and always appends its Message,
\* whether the only receiver is the one the supervisor never polls or a
\* session that is behind.
C16_LagHandling ==
    /\ [](\A s \in DOMAIN sessions :
            /\ \A i, j \in 1..Len(sessions[s].got) :
                  i < j => sessions[s].got[i] < sessions[s].got[j]
            /\ Received(s) \subseteq sessions[s].sub..(sessions[s].next - 1)
            /\ Len(sessions[s].got) + sessions[s].lagged
                  = sessions[s].next - sessions[s].sub)
    /\ [](\A t \in HTasks : InFrame(t, "set", "publish") => ENABLED SetPublish(t))
    /\ [][/\ \A s \in DOMAIN sessions : RecvStep(s) =>
                IF Len(bus) - sessions[s].next + 1 > 32
                  THEN /\ sessions'[s].lagged > sessions[s].lagged
                       /\ sessions'[s].next = Len(bus) - 32 + 1
                       /\ sessions'[s].got = sessions[s].got
                  ELSE /\ sessions'[s].lagged = sessions[s].lagged
                       /\ sessions'[s].next = sessions[s].next + 1
                       /\ sessions'[s].got = Append(sessions[s].got, sessions[s].next)
          /\ \A t \in HTasks : PublishStep(t) =>
                bus' = Append(bus, [key |-> handles[TheHandle].key, value |-> Top(t).v])
       ]_vars

C16_Witness ==
    /\ Len(bus) = 34
    /\ \E s \in DOMAIN sessions :
          /\ sessions[s].sub = 1
          /\ sessions[s].lagged = 2
          /\ sessions[s].got = Published(3, 35)
====
